---- MODULE Spec2Model ----
(***************************************************************************)
(* A model of Scalpbot: the trading bot of bot.py (AdaptiveTradingBot,     *)
(* DynamicRiskManager, TelegramNotifier) and the webhook relay of          *)
(* server.py.                                                              *)
(*                                                                         *)
(* Representation.                                                         *)
(*   - A Python str is a sequence of one-character strings, so that        *)
(*     upper(), replace("/", ""), the substring test `tok in symbol` and   *)
(*     the f-string keys are computed as the code computes them.           *)
(*   - Numbers are decimal fixed point, exact (binary floating-point       *)
(*     rounding is not modelled):                                          *)
(*        a price          in units of 0.000005   (PriceUnit per 1.0)      *)
(*        a pip count      in tenths of a pip     (stop_pips)              *)
(*        a tp pip count   in twentieths of a pip (stop_pips * ratio)      *)
(*        a rr ratio       in halves                                       *)
(*        a market multiplier in tenths                                    *)
(*        a pip size       in units of 0.0001                              *)
(*        a pip value      in hundredths                                   *)
(*        money            in cents                                        *)
(*        a position size  in hundredths of a lot                          *)
(*        risk_percent     in tenths of a percent                          *)
(***************************************************************************)
EXTENDS Integers, Sequences, FiniteSets, TLC

VARIABLES
    account_balance,    \* self.account_balance
    risk_percent,       \* self.risk_percent
    active_trades,      \* self.active_trades: trade_id -> trade
    last_signal_time,   \* self.last_signal_time: signal_key -> time.time()
    telegram,           \* self.telegram is not None
    now,                \* the wall clock, in seconds
    result,             \* what the last add_signal call returned and sent
    log,                \* the add_signal calls made so far, with their outcome
    call,               \* the arguments of a calculate_trade_plan call
    plan,               \* << >>, or <<p>> once calculate_trade_plan returned p
    threads,            \* the threads inside add_signal: where each one is
    request,            \* server.py: the request the webhook is handling
    response,           \* server.py: what the webhook answered to it
    channel             \* server.py: the messages delivered to the channel

vars == <<account_balance, risk_percent, active_trades, last_signal_time,
          telegram, now, result, log, call, plan, threads,
                   request, response, channel>>

----------------------------------------------------------------------------
(* Python strings *)

LowerCase == <<"a","b","c","d","e","f","g","h","i","j","k","l","m",
               "n","o","p","q","r","s","t","u","v","w","x","y","z">>
UpperCase == <<"A","B","C","D","E","F","G","H","I","J","K","L","M",
               "N","O","P","Q","R","S","T","U","V","W","X","Y","Z">>

\* the upper-case letter of each lower-case letter
ToUpper ==
    [c \in {LowerCase[i] : i \in 1..Len(LowerCase)} |->
        UpperCase[CHOOSE k \in 1..Len(LowerCase) : LowerCase[k] = c]]

IsAlpha(c) == c \in DOMAIN ToUpper \/ \E i \in 1..Len(UpperCase) : UpperCase[i] = c

\* str.upper()
upper(s) ==
    [i \in 1..Len(s) |-> IF s[i] \in DOMAIN ToUpper THEN ToUpper[s[i]] ELSE s[i]]

\* str.replace("/", "")
replace_slash(s) == SelectSeq(s, LAMBDA c : c # "/")

\* tok in s
Contains(s, tok) ==
    \E i \in 0..(Len(s) - Len(tok)) : SubSeq(s, i + 1, i + Len(tok)) = tok

\* any(tok in s for tok in toks)
ContainsAny(s, toks) == \E tok \in toks : Contains(s, tok)

----------------------------------------------------------------------------
(* Enums and tables *)

FOREX       == "FOREX"
CRYPTO      == "CRYPTO"
STOCKS      == "STOCKS"
COMMODITIES == "COMMODITIES"
MarketType  == {FOREX, CRYPTO, STOCKS, COMMODITIES}

\* TimeFrame: member name -> value
TimeFrame ==
    [M1  |-> <<"1","M">>,      M3  |-> <<"3","M">>,      M5 |-> <<"5","M">>,
     M15 |-> <<"1","5","M">>,  M30 |-> <<"3","0","M">>,  H1 |-> <<"1","H">>,
     H4  |-> <<"4","H">>,      D1  |-> <<"1","D">>,      W1 |-> <<"1","W">>]

TimeFrames == DOMAIN TimeFrame

\* timeframe_stops with a one-hour stop narrower than the thirty-minute one
timeframe_stops_narrow_hour ==
    [M1 |-> 2, M3 |-> 3, M5 |-> 5, M15 |-> 8, M30 |-> 12,
     H1 |-> 10, H4 |-> 25, D1 |-> 40, W1 |-> 60]

\* DynamicRiskManager.timeframe_stops, in pips
timeframe_stops ==
    [M1 |-> 2, M3 |-> 3, M5 |-> 5, M15 |-> 8, M30 |-> 12,
     H1 |-> 15, H4 |-> 25, D1 |-> 40, W1 |-> 60]

\* DynamicRiskManager.timeframe_rr_ratios, in halves
timeframe_rr_ratios ==
    [M1  |-> <<2, 3, 4>>,  M3 |-> <<2, 4, 6>>,   M5 |-> <<3, 5, 7>>,
     M15 |-> <<4, 6, 8>>,  M30 |-> <<4, 6, 8>>,  H1 |-> <<5, 7, 10>>,
     H4  |-> <<6, 8, 12>>, D1 |-> <<6, 10, 16>>, W1 |-> <<8, 12, 20>>]

\* DynamicRiskManager.market_multipliers, in tenths
market_multipliers ==
    [FOREX |-> 10, CRYPTO |-> 25, STOCKS |-> 8, COMMODITIES |-> 15]

----------------------------------------------------------------------------
(* AdaptiveTradingBot.get_market_profile *)

\* initialize_market_profiles: the fields the bot reads (market_type and
\* pip_value; avg_daily_range, spread and lot_size are never read)
market_profiles ==
    {
      [symbol |-> <<"E","U","R","U","S","D">>, market_type |-> FOREX, pip_value |-> 1000],
      [symbol |-> <<"G","B","P","U","S","D">>, market_type |-> FOREX, pip_value |-> 1000],
      [symbol |-> <<"U","S","D","J","P","Y">>, market_type |-> FOREX, pip_value |-> 927],
      [symbol |-> <<"E","U","R","C","A","D">>, market_type |-> FOREX, pip_value |-> 750],
      [symbol |-> <<"A","U","D","U","S","D">>, market_type |-> FOREX, pip_value |-> 1000],
      [symbol |-> <<"N","Z","D","U","S","D">>, market_type |-> FOREX, pip_value |-> 1000],
      [symbol |-> <<"U","S","D","C","A","D">>, market_type |-> FOREX, pip_value |-> 1000],
      [symbol |-> <<"B","T","C","U","S","D">>, market_type |-> CRYPTO, pip_value |-> 100],
      [symbol |-> <<"E","T","H","U","S","D">>, market_type |-> CRYPTO, pip_value |-> 100],
      [symbol |-> <<"S","O","L","U","S","D">>, market_type |-> CRYPTO, pip_value |-> 100],
      [symbol |-> <<"X","R","P","U","S","D">>, market_type |-> CRYPTO, pip_value |-> 100],
      [symbol |-> <<"X","A","U","U","S","D">>, market_type |-> COMMODITIES, pip_value |-> 100],
      [symbol |-> <<"X","A","G","U","S","D">>, market_type |-> COMMODITIES, pip_value |-> 100],
      [symbol |-> <<"U","S","3","0">>, market_type |-> STOCKS, pip_value |-> 100],
      [symbol |-> <<"S","P","X","5","0","0">>, market_type |-> STOCKS, pip_value |-> 100],
      [symbol |-> <<"N","A","S","1","0","0">>, market_type |-> STOCKS, pip_value |-> 100]
    }

CryptoTokens    == {<<"B","T","C">>, <<"E","T","H">>, <<"S","O","L">>, <<"X","R","P">>, <<"A","D","A">>, <<"D","O","T">>}
ForexTokens     == {<<"E","U","R">>, <<"G","B","P">>, <<"U","S","D">>, <<"J","P","Y">>, <<"C","A","D">>, <<"A","U","D">>, <<"N","Z","D">>, <<"C","H","F">>}
CommodityTokens == {<<"X","A","U">>, <<"X","A","G">>, <<"O","I","L">>}

MarketProfile(symbol, market_type, pip_value) ==
    [symbol |-> symbol, market_type |-> market_type, pip_value |-> pip_value]

\* get_market_profile with FOREX as the fallback of the auto-detection
get_market_profile_forex_default(symbol0) ==
    LET symbol == replace_slash(upper(symbol0)) IN
    IF \E p \in market_profiles : p.symbol = symbol
    THEN CHOOSE p \in market_profiles : p.symbol = symbol
    ELSE IF ContainsAny(symbol, CryptoTokens)
         THEN MarketProfile(symbol, CRYPTO, 100)
    ELSE IF ContainsAny(symbol, ForexTokens)
         THEN MarketProfile(symbol, FOREX, 1000)
    ELSE IF ContainsAny(symbol, CommodityTokens)
         THEN MarketProfile(symbol, COMMODITIES, 100)
    ELSE MarketProfile(symbol, FOREX, 1000)

get_market_profile(symbol0) ==
    LET symbol == replace_slash(upper(symbol0)) IN
    IF \E p \in market_profiles : p.symbol = symbol
    THEN CHOOSE p \in market_profiles : p.symbol = symbol
    ELSE IF ContainsAny(symbol, CryptoTokens)
         THEN MarketProfile(symbol, CRYPTO, 100)
    ELSE IF ContainsAny(symbol, ForexTokens)
         THEN MarketProfile(symbol, FOREX, 1000)
    ELSE IF ContainsAny(symbol, CommodityTokens)
         THEN MarketProfile(symbol, COMMODITIES, 100)
    ELSE MarketProfile(symbol, STOCKS, 100)

----------------------------------------------------------------------------
(* DynamicRiskManager *)

PipSizeTokensMetal  == {<<"X","A","U">>, <<"X","A","G">>, <<"O","I","L">>}
PipSizeTokensCrypto == {<<"B","T","C">>, <<"E","T","H">>, <<"S","O","L">>}

\* the pip size, in units of 0.0001
calculate_pip_size(symbol0) ==
    LET symbol == upper(symbol0) IN
    IF Contains(symbol, <<"J","P","Y">>) THEN 100
    ELSE IF ContainsAny(symbol, PipSizeTokensMetal) THEN 100
    ELSE IF ContainsAny(symbol, PipSizeTokensCrypto) THEN 10000
    ELSE 1

SHORT == <<"S","H","O","R","T">>
LONG  == <<"L","O","N","G">>

\* calculate_stop_loss with the direction test dropped: the stop is placed
\* below the entry, as for a LONG
calculate_stop_loss_no_direction(symbol, entry_price, direction, timeframe, market_type) ==
    LET base_stop  == IF timeframe \in DOMAIN timeframe_stops
                      THEN timeframe_stops[timeframe] ELSE 10
        multiplier == IF market_type \in DOMAIN market_multipliers
                      THEN market_multipliers[market_type] ELSE 10
        stop_pips  == base_stop * multiplier
        stop_distance == stop_pips * calculate_pip_size(symbol) * 2
    IN  [stop_loss |-> entry_price - stop_distance, stop_pips |-> stop_pips,
         stop_distance |-> stop_distance]

\* stop_pips in tenths of a pip; stop_distance and stop_loss in price units
calculate_stop_loss(symbol, entry_price, direction, timeframe, market_type) ==
    LET base_stop  == IF timeframe \in DOMAIN timeframe_stops
                      THEN timeframe_stops[timeframe] ELSE 10
        multiplier == IF market_type \in DOMAIN market_multipliers
                      THEN market_multipliers[market_type] ELSE 10
        stop_pips  == base_stop * multiplier
        pip_size   == calculate_pip_size(symbol)
        stop_distance == stop_pips * pip_size * 2
        stop_price == IF upper(direction) = SHORT
                      THEN entry_price + stop_distance
                      ELSE entry_price - stop_distance
    IN  [stop_loss |-> stop_price, stop_pips |-> stop_pips,
         stop_distance |-> stop_distance]

\* calculate_take_profits with the direction test dropped: every target is
\* placed above the entry, as for a LONG
calculate_take_profits_no_direction(entry_price, stop_pips, direction, timeframe, symbol) ==
    LET rr_ratios == IF timeframe \in DOMAIN timeframe_rr_ratios
                     THEN timeframe_rr_ratios[timeframe] ELSE <<2, 4, 6>>
        pip_size  == calculate_pip_size(symbol)
    IN  [i \in 1..Len(rr_ratios) |->
            [level |-> i, price |-> entry_price + stop_pips * rr_ratios[i] * pip_size,
             pips |-> stop_pips * rr_ratios[i], rr_ratio |-> rr_ratios[i],
             distance |-> stop_pips * rr_ratios[i] * pip_size]]

\* calculate_take_profits with the pip size 0.0001 for every symbol
calculate_take_profits_default_pip(entry_price, stop_pips, direction, timeframe, symbol) ==
    LET rr_ratios == IF timeframe \in DOMAIN timeframe_rr_ratios
                     THEN timeframe_rr_ratios[timeframe] ELSE <<2, 4, 6>>
    IN  [i \in 1..Len(rr_ratios) |->
            LET tp_distance == stop_pips * rr_ratios[i]
            IN  [level |-> i,
                 price |-> IF upper(direction) = SHORT
                           THEN entry_price - tp_distance
                           ELSE entry_price + tp_distance,
                 pips |-> stop_pips * rr_ratios[i], rr_ratio |-> rr_ratios[i],
                 distance |-> tp_distance]]

\* pips in twentieths of a pip, rr_ratio in halves, distance and price in
\* price units; an empty symbol takes the default pip size 0.0001
calculate_take_profits(entry_price, stop_pips, direction, timeframe, symbol) ==
    LET rr_ratios == IF timeframe \in DOMAIN timeframe_rr_ratios
                     THEN timeframe_rr_ratios[timeframe] ELSE <<2, 4, 6>>
        pip_size  == IF symbol # << >> THEN calculate_pip_size(symbol) ELSE 1
    IN  [i \in 1..Len(rr_ratios) |->
            LET ratio       == rr_ratios[i]
                tp_pips     == stop_pips * ratio
                tp_distance == tp_pips * pip_size
                tp_price    == IF upper(direction) = SHORT
                               THEN entry_price - tp_distance
                               ELSE entry_price + tp_distance
            IN  [level |-> i, price |-> tp_price, pips |-> tp_pips,
                 rr_ratio |-> ratio, distance |-> tp_distance]]

\* floor(n / d) for d > 0
FloorDiv(n, d) == n \div d

\* round(n / d) to the nearest integer, ties to even (Python's round), d > 0
RoundHalfEven(n, d) ==
    LET q == FloorDiv(n, d)
        r == n - q * d
    IN  IF 2 * r > d THEN q + 1
        ELSE IF 2 * r < d THEN q
        ELSE IF q % 2 = 0 THEN q ELSE q + 1

\* calculate_position_size without the floor at 0.01
calculate_position_size_no_floor(balance, riskpct, stop_pips, pip_value) ==
    IF stop_pips > 0
    THEN RoundHalfEven(balance * riskpct, stop_pips * pip_value)
    ELSE 0

\* the position size in hundredths of a lot:
\*   risk_amount / (stop_pips * pip_value)
\*     = (balance_c/100 * rp10/1000) / (sp10/10 * pv100/100)
\*     = balance_c * rp10 / (100 * sp10 * pv100)      lots
calculate_position_size(balance, riskpct, stop_pips, pip_value) ==
    LET position_size ==
            IF stop_pips > 0
            THEN RoundHalfEven(balance * riskpct, stop_pips * pip_value)
            ELSE 0
    IN  IF position_size < 1 THEN 1 ELSE position_size

----------------------------------------------------------------------------
(* AdaptiveTradingBot.calculate_trade_plan *)

\* price units per 1.0
PriceUnit == 2 * 100000

\* risk_amount is in thousandths of a cent:
\*   account_balance * (risk_percent / 100.0) = balance_c/100 * rp10/1000
calculate_trade_plan(symbol, direction, entry_price, timeframe, riskpct) ==
    LET market_profile == get_market_profile(symbol)
        stop_data == calculate_stop_loss(symbol, entry_price, direction,
                                         timeframe, market_profile.market_type)
        tp_levels == calculate_take_profits(entry_price, stop_data.stop_pips,
                                            direction, timeframe, symbol)
        position_size == calculate_position_size(account_balance, riskpct,
                                                 stop_data.stop_pips,
                                                 market_profile.pip_value)
        risk_amount == account_balance * riskpct
    IN  [symbol        |-> symbol,
         direction     |-> direction,
         market_type   |-> market_profile.market_type,
         timeframe     |-> TimeFrame[timeframe],
         entry_price   |-> entry_price,
         stop_loss     |-> stop_data.stop_loss,
         stop_pips     |-> stop_data.stop_pips,
         take_profits  |-> tp_levels,
         position_size |-> position_size,
         risk_amount   |-> risk_amount,
         risk_percent  |-> riskpct,
         pip_value     |-> market_profile.pip_value]

----------------------------------------------------------------------------
(* The inputs of the checks *)

Sym_EURCAD    == <<"E","U","R","C","A","D">>
Sym_USDJPY    == <<"U","S","D","J","P","Y">>
Sym_BTCUSD    == <<"B","T","C","U","S","D">>
Sym_XAUUSD    == <<"X","A","U","U","S","D">>
Sym_US30      == <<"U","S","3","0">>
Sym_eur_usd_slash== <<"e","u","r","/","u","s","d">>
Sym_ETHEUR    == <<"E","T","H","E","U","R">>
Sym_XAUEUR    == <<"X","A","U","E","U","R">>
Sym_GBPCHF    == <<"G","B","P","C","H","F">>
Sym_OIL       == <<"O","I","L">>
Sym_GER30     == <<"G","E","R","3","0">>
Sym_AAPL      == <<"A","A","P","L">>
Sym_SEKNOK    == <<"S","E","K","N","O","K">>

PlanSymbols ==
    {Sym_EURCAD, Sym_USDJPY, Sym_BTCUSD, Sym_XAUUSD, Sym_US30, Sym_eur_usd_slash, Sym_ETHEUR, Sym_XAUEUR, Sym_GBPCHF, Sym_OIL, Sym_GER30, Sym_AAPL, Sym_SEKNOK}

short_lc == <<"s","h","o","r","t">>
BUY      == <<"B","U","Y">>

PlanDirections == {LONG, SHORT, short_lc, BUY}

\* -1.0, 0.0, 1.61159 and 2000.0
EntryPrices == {-PriceUnit, 0, 161159 * 2, 2000 * PriceUnit}

\* AdaptiveTradingBot(account_balance=10000.0, risk_percent=1.0)
DefaultBalance     == 10000 * 100
DefaultRiskPercent == 1 * 10

\* the tf_map of add_signal: the key and the member of TimeFrame it names
tf_map ==
    (<<"1","M">> :> "M1") @@ (<<"3","M">> :> "M3") @@ (<<"5","M">> :> "M5") @@
    (<<"1","5","M">> :> "M15") @@ (<<"3","0","M">> :> "M30") @@
    (<<"1","H">> :> "H1") @@ (<<"4","H">> :> "H4") @@ (<<"1","D">> :> "D1") @@
    (<<"1","W">> :> "W1")

\* tf_map.get with the key "1W" missing from the map
tf_map_get_no_week(timeframe) ==
    IF upper(timeframe) \in DOMAIN tf_map \ {<<"1","W">>}
    THEN tf_map[upper(timeframe)] ELSE "M3"

\* tf_map.get(timeframe.upper(), TimeFrame.M3)
tf_map_get(timeframe) ==
    IF upper(timeframe) \in DOMAIN tf_map THEN tf_map[upper(timeframe)] ELSE "M3"

\* the timeframe strings given to add_signal: the nine values of TimeFrame,
\* two in lower case, and three that are no key of tf_map
TimeframeStrings ==
    {TimeFrame[m] : m \in TimeFrames}
        \cup {<<"1","h">>, <<"1","5","m">>, <<"2","H">>, <<"M","3">>, << >>}

TimeframeCalls == [op : {"tf_map.get"}, timeframe : TimeframeStrings]

NoCall == [op |-> "none"]

PlanCalls ==
    [op : {"calculate_trade_plan"}, symbol : PlanSymbols,
     direction : PlanDirections, entry_price : EntryPrices,
     timeframe : TimeFrames]

\* direct calls of calculate_position_size: balances of -50.00, 0.00, 1.00
\* and 10000.00, stops of -3, 0, 1.6, 3 and 150 pips
SizeCalls ==
    [op : {"calculate_position_size"},
     account_balance : {-50 * 100, 0, 100, DefaultBalance},
     risk_percent : {DefaultRiskPercent, 2 * 10},
     stop_pips : {-30, 0, 16, 30, 1500},
     pip_value : {100, 750, 927, 1000}]

----------------------------------------------------------------------------
(* SpecPlan: calculate_trade_plan as a function of its arguments, on a     *)
(* freshly constructed bot                                                 *)

\* the threads that may call add_signal at once
NThreads == 2
Threads  == 1..NThreads

\* a thread outside add_signal
Idle == [pc |-> "idle", sig |-> << >>, current_time |-> 0, outcome |-> "none"]

\* server.py before any request
NoRequest  == [state |-> "none"]
NoResponse == [state |-> "none"]

InitBot ==
    /\ threads = [t \in Threads |-> Idle]
    /\ request = NoRequest
    /\ response = NoResponse
    /\ channel = << >>
    /\ account_balance = DefaultBalance
    /\ risk_percent = DefaultRiskPercent
    /\ active_trades = << >>
    /\ last_signal_time = << >>
    /\ now = 0
    /\ result = [op |-> "none"]
    /\ log = << >>

InitPlan ==
    /\ InitBot
    /\ telegram = FALSE
    /\ call \in PlanCalls \cup SizeCalls \cup TimeframeCalls
    /\ plan = << >>

CalculateTradePlan ==
    /\ call.op = "calculate_trade_plan"
    /\ plan = << >>
    /\ plan' = <<calculate_trade_plan(call.symbol, call.direction,
                                      call.entry_price, call.timeframe,
                                      risk_percent)>>
    /\ UNCHANGED <<account_balance, risk_percent, active_trades,
                   last_signal_time, telegram, now, result, log, call,
                   threads,
                   request, response, channel>>

CalculatePositionSize ==
    /\ call.op = "calculate_position_size"
    /\ plan = << >>
    /\ plan' = <<[position_size |->
                    calculate_position_size(call.account_balance,
                                            call.risk_percent,
                                            call.stop_pips, call.pip_value)]>>
    /\ UNCHANGED <<account_balance, risk_percent, active_trades,
                   last_signal_time, telegram, now, result, log, call,
                   threads,
                   request, response, channel>>

\* lines 473-478 of add_signal: the timeframe string is resolved
ResolveTimeframe ==
    /\ call.op = "tf_map.get"
    /\ plan = << >>
    /\ plan' = <<[timeframe_enum |-> tf_map_get(call.timeframe)]>>
    /\ UNCHANGED <<account_balance, risk_percent, active_trades,
                   last_signal_time, telegram, now, result, log, call,
                   threads,
                   request, response, channel>>

NextPlan == CalculateTradePlan \/ CalculatePositionSize \/ ResolveTimeframe

SpecPlan == InitPlan /\ [][NextPlan]_vars

----------------------------------------------------------------------------
(* TelegramNotifier *)

\* what requests.post does: a 200 response, another status, or an exception
\* (a connection error, or the timeout of 10 seconds)
NetOutcomes == {"ok", "non200", "exception"}

\* a Python call returns True or False, or raises
PyTrue  == "True"
PyFalse == "False"
Raises  == "raise"

\* send_message without its except clause
send_message_unguarded(net) ==
    IF net = "exception" THEN Raises
    ELSE IF net = "ok" THEN PyTrue ELSE PyFalse

send_message(net) ==
    IF net = "exception" THEN PyFalse
    ELSE IF net = "ok" THEN PyTrue ELSE PyFalse

\* the message is built from a plan of calculate_trade_plan, whose fields are
\* all present and numeric; whatever send_message raises is caught
send_trade_signal(trade_plan, net) ==
    IF send_message(net) = Raises THEN PyFalse ELSE send_message(net)

----------------------------------------------------------------------------
(* AdaptiveTradingBot.add_signal *)

\* the cooldown of add_signal, in seconds
Cooldown == 300

\* the add_signal calls of one run
MaxCalls == 3
\* the clock stops here
MaxTime == 300

\* f"{symbol}": a key without direction and timeframe
signal_key_symbol_only(symbol, direction, timeframe) == symbol

\* f"{symbol}_{direction}_{timeframe}"
signal_key(symbol, direction, timeframe) ==
    symbol \o <<"_">> \o direction \o <<"_">> \o timeframe

\* f"{symbol}_{datetime.now().strftime('%Y%m%d_%H%M%S')}": the symbol and the
\* clock's second
make_trade_id(symbol, t) == [symbol |-> symbol, time |-> t]

\* the record execute_trade stores
new_trade(trade_plan, trade_id, t) ==
    [symbol        |-> trade_plan.symbol,
     direction     |-> trade_plan.direction,
     market_type   |-> trade_plan.market_type,
     timeframe     |-> trade_plan.timeframe,
     entry_price   |-> trade_plan.entry_price,
     stop_loss     |-> trade_plan.stop_loss,
     stop_pips     |-> trade_plan.stop_pips,
     take_profits  |-> trade_plan.take_profits,
     position_size |-> trade_plan.position_size,
     risk_amount   |-> trade_plan.risk_amount,
     risk_percent  |-> trade_plan.risk_percent,
     pip_value     |-> trade_plan.pip_value,
     trade_id      |-> trade_id,
     status        |-> "ACTIVE",
     entry_time    |-> t,
     current_pnl   |-> 0,
     current_price |-> trade_plan.entry_price,
     max_profit    |-> 0,
     max_loss      |-> 0]

\* d[k] = v
Put(d, k, v) == [x \in DOMAIN d \cup {k} |-> IF x = k THEN v ELSE d[x]]

\* the record of one network call: the function called, what the network
\* did and what the function returned
Sent(fn, net, ret) == [fn |-> fn, net |-> net, ret |-> ret]

\* the cooldown test of add_signal with <= for <
is_duplicate_inclusive(key, current_time) ==
    /\ key \in DOMAIN last_signal_time
    /\ current_time - last_signal_time[key] <= Cooldown

\* lines 493-495: a signal of this key was let through less than Cooldown
\* seconds ago
is_duplicate(key, current_time) ==
    /\ key \in DOMAIN last_signal_time
    /\ current_time - last_signal_time[key] < Cooldown

\* execute_trade that stores nothing
execute_trade_stores_nothing(trade_plan, trade_id) == active_trades

\* execute_trade: self.active_trades after the trade is stored
execute_trade(trade_plan, trade_id) ==
    Put(active_trades, trade_id, new_trade(trade_plan, trade_id, now))

\* the store of line 499 made by a rejected duplicate as well
store_signal_time_always(duplicate, key, current_time) ==
    Put(last_signal_time, key, current_time)

\* lines 493-499: self.last_signal_time after the test: a duplicate returns
\* before the store
store_signal_time(duplicate, key, current_time) ==
    IF duplicate THEN last_signal_time
    ELSE Put(last_signal_time, key, current_time)

\* the add_signal calls of one run: symbol, direction, entry_price, whether
\* the entry_price is a number at all, timeframe
Signal(symbol, direction, entry_price, numeric, timeframe) ==
    [symbol |-> symbol, direction |-> direction, entry_price |-> entry_price,
     numeric |-> numeric, timeframe |-> timeframe]

\* one call of add_signal(sig.symbol, sig.direction, sig.entry_price,
\* sig.timeframe), from its entry to its return. sig.numeric is FALSE for an
\* entry_price that is no number (a str, None), with which
\* calculate_stop_loss raises TypeError. net[k] is what the network does on
\* the k-th call of requests.post that the call makes.
AddSignal(sig, net) ==
    LET timeframe_enum == tf_map_get(sig.timeframe)
        key            == signal_key(sig.symbol, sig.direction, sig.timeframe)
        current_time   == now
        duplicate      == is_duplicate(key, current_time)
        trade_plan     == calculate_trade_plan(sig.symbol, sig.direction,
                                               sig.entry_price, timeframe_enum,
                                               risk_percent)
        trade_id       == make_trade_id(sig.symbol, now)
        planRaises     == ~sig.numeric
        \* line 515: send_trade_signal; line 573: execute_trade's message
        success        == Sent("send_trade_signal", net[1],
                               send_trade_signal(trade_plan, net[1]))
        executed       == Sent("send_message", net[2], send_message(net[2]))
        execRaises     == telegram /\ executed.ret = Raises
        \* line 528: the handler's message, the first call when the plan
        \* raised and the third when execute_trade did
        reported       == IF planRaises
                          THEN Sent("send_message", net[1], send_message(net[1]))
                          ELSE Sent("send_message", net[3], send_message(net[3]))
        sends          == IF duplicate \/ ~telegram THEN << >>
                          ELSE IF planRaises THEN <<reported>>
                          ELSE IF execRaises THEN <<success, executed, reported>>
                          ELSE <<success, executed>>
        outcome        == IF duplicate THEN "duplicate"
                          ELSE IF ~(planRaises \/ execRaises) THEN "accepted"
                          ELSE IF telegram /\ reported.ret = Raises THEN "raised"
                          ELSE "error"
    IN  /\ Len(log) < MaxCalls
        /\ \A k \in (Len(sends) + 1)..3 : net[k] = "ok"
        /\ last_signal_time' = store_signal_time(duplicate, key, current_time)
        /\ active_trades' =
              IF duplicate \/ planRaises THEN active_trades
              ELSE execute_trade(trade_plan, trade_id)
        /\ result' = [op       |-> "add_signal",
                      outcome  |-> outcome,
                      returned |-> IF outcome = "accepted" THEN <<trade_id>>
                                   ELSE << >>,
                      sends    |-> sends]
        /\ log' = Append(log, [sig |-> sig, time |-> now, outcome |-> outcome])
        /\ UNCHANGED <<account_balance, risk_percent, telegram, now, call, plan,
                       threads,
                   request, response, channel>>

\* the instants at which the clock is read: the multiples of the cooldown
\* and the second before each
Instants == {t \in 0..MaxTime : t % Cooldown \in {0, Cooldown - 1}}

\* the clock advances to a later instant
Tick(t) ==
    /\ t > now
    /\ now' = t
    /\ UNCHANGED <<account_balance, risk_percent, active_trades,
                   last_signal_time, telegram, result, log, call, plan,
                   threads,
                   request, response, channel>>

tf_3M == <<"3","M">>
tf_1h == <<"1","h">>

\* 1.61159 and 2000.0
Price1 == 161159 * 2
Price2 == 2000 * PriceUnit

\* the signals a run draws from: the first signal of main(), the same at
\* another price, its opposite, a crypto signal, and two whose entry_price
\* is no number
BotSignals ==
    { Signal(Sym_EURCAD, SHORT, Price1, TRUE,  tf_3M),
      Signal(Sym_EURCAD, SHORT, Price2, TRUE,  tf_3M),
      Signal(Sym_EURCAD, LONG,  Price1, TRUE,  tf_3M),
      Signal(Sym_BTCUSD, LONG,  Price2, TRUE,  tf_1h),
      Signal(Sym_EURCAD, SHORT, 0,      FALSE, tf_3M),
      Signal(Sym_BTCUSD, LONG,  0,      FALSE, tf_1h) }

----------------------------------------------------------------------------
(* Spec: a bot, constructed with or without a working Telegram notifier,   *)
(* receiving signals one at a time                                         *)

Init ==
    /\ InitBot
    /\ telegram \in BOOLEAN
    /\ call = NoCall
    /\ plan = << >>

Next ==
    \/ \E sig \in BotSignals, net \in [1..3 -> NetOutcomes] : AddSignal(sig, net)
    \/ \E t \in Instants : Tick(t)

Spec == Init /\ [][Next]_vars

----------------------------------------------------------------------------
(* Claims about calculate_trade_plan (SpecPlan) *)

PlanReturned == call.op = "calculate_trade_plan" /\ plan # << >>
SizeReturned == call.op = "calculate_position_size" /\ plan # << >>

TP(p, i) == p.take_profits[i].price

\* C1: in every trade plan for a positive entry price, a LONG has
\* stop_loss < entry_price < TP1 < TP2 < TP3 and a SHORT has
\* stop_loss > entry_price > TP1 > TP2 > TP3.
C1_LevelsOrdered ==
    (PlanReturned /\ call.entry_price > 0) =>
        LET p == plan[1] IN
        /\ p.direction = LONG =>
              /\ p.stop_loss < p.entry_price
              /\ p.entry_price < TP(p, 1)
              /\ TP(p, 1) < TP(p, 2)
              /\ TP(p, 2) < TP(p, 3)
        /\ p.direction = SHORT =>
              /\ p.stop_loss > p.entry_price
              /\ p.entry_price > TP(p, 1)
              /\ TP(p, 1) > TP(p, 2)
              /\ TP(p, 2) > TP(p, 3)

\* a SHORT plan for a crypto symbol at a positive price has been computed
C1_Witness ==
    /\ PlanReturned
    /\ call.entry_price > 0
    /\ plan[1].direction = SHORT
    /\ plan[1].market_type = CRYPTO
    /\ plan[1].stop_loss > plan[1].entry_price

\* a "calculation failed" result: no stop, no targets, no position size
CalculationFailed(r) ==
    DOMAIN r \cap {"stop_loss", "take_profits", "position_size"} = {}

\* C7: a non-positive entry price, or a stop distance of zero, gives a
\* "calculation failed" result with stop_loss, take-profit levels and
\* position size all unavailable.
C7_ShortCircuit ==
    /\ (PlanReturned /\ call.entry_price <= 0) => CalculationFailed(plan[1])
    /\ (SizeReturned /\ call.stop_pips = 0) => CalculationFailed(plan[1])

\* the classifier of the specification (4.1), on the cleaned symbol; the
\* code's name for the index category is STOCKS
IndexTickers    == {<<"G","E","R","3","0">>, <<"N","A","S","1","0","0">>, <<"S","P","X","5","0","0">>, <<"U","S","3","0">>, <<"U","K","1","0","0">>, <<"J","P","N","2","2","5">>, <<"D","X","Y">>}
RefCommodities  == {<<"X","A","U">>, <<"G","O","L","D">>, <<"X","A","G">>, <<"S","I","L","V","E","R">>, <<"O","I","L">>, <<"B","R","E","N","T">>, <<"W","T","I">>, <<"X","P","T">>, <<"P","L","A","T","I","N","U","M">>}
RefCryptos      == {<<"B","T","C">>, <<"E","T","H">>, <<"X","R","P">>, <<"A","D","A">>, <<"S","O","L">>, <<"D","O","T">>}

IsSixLetters(s) == Len(s) = 6 /\ \A i \in 1..Len(s) : IsAlpha(s[i])

\* C8: the market type of a symbol is the index category when it contains an
\* index ticker, else COMMODITIES when it contains a commodity token, else
\* CRYPTO when it contains a crypto token, and FOREX for a 6-letter
\* alphabetic symbol with none of these keywords.
C8_AgreesWithReference ==
    PlanReturned =>
        LET s == replace_slash(upper(call.symbol))
            t == plan[1].market_type
        IN  IF ContainsAny(s, IndexTickers) THEN t = STOCKS
            ELSE IF ContainsAny(s, RefCommodities) THEN t = COMMODITIES
            ELSE IF ContainsAny(s, RefCryptos) THEN t = CRYPTO
            ELSE IsSixLetters(s) => t = FOREX

\* the symbol matches no known profile and no keyword of the auto-detection
NoProfileNoKeyword(symbol0) ==
    LET s == replace_slash(upper(symbol0)) IN
    /\ ~ \E p \in market_profiles : p.symbol = s
    /\ ~ ContainsAny(s, CryptoTokens \cup ForexTokens \cup CommodityTokens)

----------------------------------------------------------------------------
(* Claims about add_signal (Spec) *)

Calls == 1..Len(log)

\* no call strictly between i and j is for the same symbol and direction,
\* except rejected repetitions of call i's signal
OnlyRepetitionsBetween(i, j) ==
    \A k \in Calls :
        (/\ i < k /\ k < j
         /\ log[k].sig.symbol = log[i].sig.symbol
         /\ log[k].sig.direction = log[i].sig.direction)
        => (log[k].sig = log[i].sig /\ log[k].outcome = "duplicate")

\* C2: after a signal is accepted, the identical signal (same symbol,
\* direction, price and timeframe) is rejected as a duplicate while less than
\* 300 seconds have passed since the acceptance, and is accepted again at the
\* first submission 300 seconds or more after it.
C2_DuplicateThenAcceptedAgain ==
    \A i, j \in Calls :
        (i < j /\ log[i].sig = log[j].sig /\ log[i].outcome = "accepted") =>
            /\ log[j].time - log[i].time < Cooldown
                  => log[j].outcome = "duplicate"
            /\ (log[j].time - log[i].time >= Cooldown
                /\ OnlyRepetitionsBetween(i, j))
                  => log[j].outcome = "accepted"

\* the same signal three times: accepted, rejected 299 seconds later,
\* accepted 300 seconds after the acceptance
C2_Witness ==
    /\ Len(log) = 3
    /\ log[1].sig = log[2].sig /\ log[2].sig = log[3].sig
    /\ log[1].outcome = "accepted"
    /\ log[2].outcome = "duplicate" /\ log[2].time = log[1].time + Cooldown - 1
    /\ log[3].outcome = "accepted"  /\ log[3].time = log[1].time + Cooldown

\* C6: a failing notification (an exception, a timeout, a response other
\* than 200) makes send_message and send_trade_signal return False, and
\* add_signal returns to its caller instead of raising.
C6_NotificationFailureContained ==
    result.op = "add_signal" =>
        /\ result.outcome # "raised"
        /\ \A k \in 1..Len(result.sends) :
              result.sends[k].net # "ok" => result.sends[k].ret = PyFalse

\* a signal is accepted although both of its notifications failed, one by an
\* exception
C6_Witness ==
    /\ result.op = "add_signal"
    /\ result.outcome = "accepted"
    /\ Len(result.sends) = 2
    /\ result.sends[1].fn = "send_trade_signal"
    /\ result.sends[1].net = "exception" /\ result.sends[1].ret = PyFalse
    /\ result.sends[2].net = "non200" /\ result.sends[2].ret = PyFalse

\* a step of add_signal
AddSignalStep == Len(log') = Len(log) + 1

----------------------------------------------------------------------------
(* SpecConc: add_signal called from several threads at once. The method    *)
(* takes no lock, so a thread switch may fall between any two statements:  *)
(* the steps are the reading of the clock (line 491), the test of the      *)
(* history (lines 493-497), the store into it (line 499) and the rest      *)
(* (lines 502-523).                                                        *)

\* the signals the threads submit: the first signal of main() and its
\* opposite
ConcSignals ==
    { Signal(Sym_EURCAD, SHORT, Price1, TRUE, tf_3M),
      Signal(Sym_EURCAD, LONG,  Price1, TRUE, tf_3M) }

ThreadKey(t) ==
    signal_key(threads[t].sig[1].symbol, threads[t].sig[1].direction,
               threads[t].sig[1].timeframe)

OthersUnchanged ==
    UNCHANGED <<account_balance, risk_percent, telegram, result, log, call, plan,
                request, response, channel>>

\* lines 471-491: the thread enters add_signal and reads the clock
Enter(t, sig) ==
    /\ threads[t].pc = "idle"
    /\ threads' = [threads EXCEPT ![t] =
                      [pc |-> "check", sig |-> <<sig>>, current_time |-> now,
                       outcome |-> "none"]]
    /\ UNCHANGED <<active_trades, last_signal_time, now>>
    /\ OthersUnchanged

\* lines 493-497: the test of the history; a duplicate returns False
CheckHistory(t) ==
    /\ threads[t].pc = "check"
    /\ threads' = [threads EXCEPT ![t] =
                      IF is_duplicate(ThreadKey(t), threads[t].current_time)
                      THEN [@ EXCEPT !.pc = "done", !.outcome = "duplicate"]
                      ELSE [@ EXCEPT !.pc = "insert"]]
    /\ UNCHANGED <<active_trades, last_signal_time, now>>
    /\ OthersUnchanged

\* line 499
InsertHistory(t) ==
    /\ threads[t].pc = "insert"
    /\ last_signal_time' =
          Put(last_signal_time, ThreadKey(t), threads[t].current_time)
    /\ threads' = [threads EXCEPT ![t].pc = "process"]
    /\ UNCHANGED <<active_trades, now>>
    /\ OthersUnchanged

\* lines 502-523: the plan, the trade, the return of the trade id (the bot
\* of SpecConc has no notifier)
Process(t) ==
    /\ threads[t].pc = "process"
    /\ LET sig == threads[t].sig[1]
           trade_plan == calculate_trade_plan(sig.symbol, sig.direction,
                                              sig.entry_price,
                                              tf_map_get(sig.timeframe),
                                              risk_percent)
       IN  active_trades' =
              execute_trade(trade_plan, make_trade_id(sig.symbol, now))
    /\ threads' = [threads EXCEPT ![t].pc = "done", ![t].outcome = "accepted"]
    /\ UNCHANGED <<last_signal_time, now>>
    /\ OthersUnchanged

InitConc ==
    /\ InitBot
    /\ telegram = FALSE
    /\ call = NoCall
    /\ plan = << >>

NextConc ==
    \/ \E t \in Threads, sig \in ConcSignals : Enter(t, sig)
    \/ \E t \in Threads : CheckHistory(t)
    \/ \E t \in Threads : InsertHistory(t)
    \/ \E t \in Threads : Process(t)
    \/ \E t \in Instants : Tick(t)

SpecConc == InitConc /\ [][NextConc]_vars

\* C3: of two add_signal calls for the same signal key that read the clock
\* less than the cooldown apart, at most one is accepted.
C3_AtMostOneAccepted ==
    \A t1, t2 \in Threads :
        (/\ t1 # t2
         /\ threads[t1].pc = "done" /\ threads[t2].pc = "done"
         /\ ThreadKey(t1) = ThreadKey(t2)
         /\ threads[t1].current_time - threads[t2].current_time < Cooldown
         /\ threads[t2].current_time - threads[t1].current_time < Cooldown)
        => ~(threads[t1].outcome = "accepted" /\ threads[t2].outcome = "accepted")

----------------------------------------------------------------------------
(* SpecWeb: src/server.py, the /webhook endpoint. A Python value is a      *)
(* tagged record: a str, a number, None, a dict (a function of its keys),  *)
(* or the text of a request body. A text is given by what json.loads makes *)
(* of it: json = <<v>> when it parses to v, << >> when it does not.        *)

Str(s)     == [t |-> "str", s |-> s]
Num(n)     == [t |-> "num", n |-> n]
None       == [t |-> "None"]
Dict(f)    == [t |-> "dict", fields |-> f]
Text(j, e) == [t |-> "text", json |-> j, empty |-> e]

\* bool(v) is False
Falsy(v) ==
    \/ v.t = "None"
    \/ v.t = "dict" /\ DOMAIN v.fields = {}
    \/ v.t = "num"  /\ v.n = 0
    \/ v.t = "str"  /\ v.s = << >>
    \/ v.t = "text" /\ v.empty

\* an exception in place of a value
Raised == [t |-> "raise"]

\* json.loads(text): the value, or the exception
json_loads(text) == IF text.json = << >> THEN Raised ELSE text.json[1]

\* dict.get(key, default)
Get(d, key, default) == IF key \in DOMAIN d.fields THEN d.fields[key] ELSE default

NA     == <<"N", "/", "A">>
ALERT  == <<"A", "L", "E", "R", "T">>
EXIT   == <<"E", "X", "I", "T">>

\* the message of line 64
FormattingFailed(data) == <<[kind |-> "failed", data |-> data], FALSE>>

format_telegram_message(data0, timestamp) ==
    LET loaded == IF data0.t = "text" THEN json_loads(data0) ELSE data0
    IN  IF loaded.t = "raise" THEN FormattingFailed(data0)
        ELSE LET data == loaded
             IN  IF data.t \in {"num", "None"} THEN FormattingFailed(data)
                 ELSE IF data.t = "str"
                      THEN IF Contains(data.s, <<"p", "a", "i", "r">>)
                           THEN FormattingFailed(data)
                           ELSE <<[kind |-> "raw", data |-> data], FALSE>>
                 ELSE IF "pair" \in DOMAIN data.fields
                      THEN LET action == Get(data, "action", Str(ALERT))
                           IN  IF action.t # "str" THEN FormattingFailed(data)
                               ELSE <<[kind      |-> "formatted",
                                       emoji     |-> IF Contains(action.s, LONG) THEN "green"
                                                     ELSE IF Contains(action.s, SHORT) THEN "red"
                                                     ELSE IF Contains(action.s, EXIT) THEN "yellow"
                                                     ELSE "bolt",
                                       action    |-> action,
                                       pair      |-> Get(data, "pair", Str(NA)),
                                       price     |-> Get(data, "price", Str(NA)),
                                       timeframe |-> Get(data, "timeframe", Str(NA)),
                                       reason    |-> Get(data, "reason", Str(<< >>)),
                                       sl        |-> IF "sl_price" \in DOMAIN data.fields
                                                     THEN <<data.fields["sl_price"]>> ELSE << >>,
                                       tp        |-> IF "tp_price" \in DOMAIN data.fields
                                                     THEN <<data.fields["tp_price"]>> ELSE << >>,
                                       adx_val   |-> Get(data, "adx_val", Str(NA)),
                                       atr       |-> Get(data, "atr", Str(NA)),
                                       volatility |-> Get(data, "volatility", Str(NA)),
                                       timestamp |-> timestamp],
                                      TRUE>>
                      ELSE <<[kind |-> "raw", data |-> data], FALSE>>

\* request.get_json(): the parsed body; a body that is not JSON under a JSON
\* content type raises; a body under another content type gives None in the
\* older Flask and raises in the newer
get_json(req, legacy) ==
    IF ~req.is_json THEN (IF legacy THEN None ELSE Raised)
    ELSE json_loads(req.body)

\* lines 73-78
body_data(req, data) ==
    IF Falsy(data)
    THEN IF json_loads(req.body).t = "raise" THEN req.body ELSE json_loads(req.body)
    ELSE data

\* what bot.send_message of telebot does
SendOutcomes == {"ok", "raises"}

Pending == [state |-> "pending"]
Answer(status, sent, code) ==
    [state |-> "answered", status |-> status, sent |-> sent, code |-> code]

\* the bodies posted to the endpoint
Fields_Long ==
    ("pair" :> Str(Sym_EURCAD)) @@ ("action" :> Str(LONG)) @@ ("price" :> Num(Price1))
Fields_ShortLevels ==
    ("pair" :> Str(Sym_BTCUSD)) @@ ("action" :> Str(SHORT)) @@ ("sl_price" :> Num(Price2))
        @@ ("tp_price" :> Num(Price1))
Fields_Exit      == ("pair" :> Str(Sym_EURCAD)) @@ ("action" :> Str(EXIT))
Fields_PairOnly  == ("pair" :> Str(Sym_EURCAD))
Fields_NumAction == ("pair" :> Str(Sym_EURCAD)) @@ ("action" :> Num(1))
Fields_Message   ==
    ("message" :> Str(<<"{", "a", "l", "e", "r", "t", "_", "m", "e", "s", "s", "a", "g", "e", "}">>))
Fields_ActionOnly == ("action" :> Str(LONG))
EmptyFields      == [k \in {} |-> None]

Bodies ==
    { Text(<<Dict(Fields_Long)>>, FALSE),
      Text(<<Dict(Fields_ShortLevels)>>, FALSE),
      Text(<<Dict(Fields_Exit)>>, FALSE),
      Text(<<Dict(Fields_PairOnly)>>, FALSE),
      Text(<<Dict(Fields_NumAction)>>, FALSE),
      Text(<<Dict(Fields_Message)>>, FALSE),
      Text(<<Dict(Fields_ActionOnly)>>, FALSE),
      Text(<<Dict(EmptyFields)>>, FALSE),
      Text(<<Num(5)>>, FALSE),
      Text(<<None>>, FALSE),
      Text(<< >>, FALSE),
      Text(<< >>, TRUE) }

Requests == [state : {"posted"}, is_json : BOOLEAN, body : Bodies]

\* the messages the channel may hold
MaxMessages == 2

\* a client posts to /webhook
Post(req) ==
    /\ response # Pending
    /\ Len(channel) < MaxMessages
    /\ request' = req
    /\ response' = Pending
    /\ UNCHANGED <<account_balance, risk_percent, active_trades, last_signal_time,
                   telegram, now, result, log, call, plan, threads, channel>>

\* lines 66-95
Webhook(legacy, net) ==
    LET got == get_json(request, legacy)
        data == body_data(request, got)
        formatted == format_telegram_message(data, now)
        message == formatted[1]
    IN  /\ response = Pending
        /\ IF got.t = "raise"
           THEN /\ net = "ok"
                /\ response' = Answer("error", << >>, 500)
                /\ channel' = channel
           ELSE IF net = "raises"
           THEN /\ response' = Answer("error", << >>, 500)
                /\ channel' = channel
           ELSE /\ response' = Answer("success", <<TRUE>>, 200)
                /\ channel' = Append(channel, message)
        /\ UNCHANGED <<account_balance, risk_percent, active_trades, last_signal_time,
                       telegram, now, result, log, call, plan, threads, request>>

InitWeb ==
    /\ InitBot
    /\ telegram = FALSE
    /\ call = NoCall
    /\ plan = << >>

NextWeb ==
    \/ \E req \in Requests : Post(req)
    \/ \E legacy \in BOOLEAN, net \in SendOutcomes : Webhook(legacy, net)
    \/ \E t \in Instants : Tick(t)

SpecWeb == InitWeb /\ [][NextWeb]_vars

\* the webhook answers the pending request in this step
Answers == response = Pending /\ response' # Pending

\* no instrument can be read from the request: its body is not a JSON object
\* with the key 'pair'
Unresolved(req) ==
    \/ req.body.json = << >>
    \/ req.body.json[1].t # "dict"
    \/ "pair" \notin DOMAIN req.body.json[1].fields

\* C4: a request whose payload names no instrument sends no message to the
\* channel and is answered with the status invalid_data.
C4_UnresolvedNotSent ==
    [][ (Answers /\ Unresolved(request))
          => (channel' = channel /\ response'.status = "invalid_data") ]_vars

\* C5: every answer of the webhook has a 200-level HTTP status.
C5_AlwaysHttp200 ==
    response.state = "answered" => response.code \in 200..299

----------------------------------------------------------------------------
(* Claims about the result of add_signal and its timeframe map *)

\* the last add_signal call
LastCall == log[Len(log)]

\* the Telegram message of the trade plan was not delivered
DeliveryFailed(r) ==
    /\ r.op = "add_signal"
    /\ r.outcome = "accepted"
    /\ Len(r.sends) > 0
    /\ r.sends[1].fn = "send_trade_signal"
    /\ r.sends[1].ret # PyTrue

\* C11: when the notification of an accepted signal is not delivered, what
\* add_signal returns differs from what it returns when the notification is
\* delivered, which is the trade id.
C11_DeliveryFailureReported ==
    DeliveryFailed(result) =>
        result.returned # <<make_trade_id(LastCall.sig.symbol, LastCall.time)>>

TimeframeResolved == call.op = "tf_map.get" /\ plan # << >>

\* C12: for each of the nine values of TimeFrame, the member that tf_map
\* gives for the value has that value, and resolving the member's value
\* gives the same member again.
C12_CanonicalLabelsFixed ==
    (TimeframeResolved /\ call.timeframe \in {TimeFrame[m] : m \in TimeFrames})
        => /\ TimeFrame[plan[1].timeframe_enum] = call.timeframe
           /\ tf_map_get(TimeFrame[plan[1].timeframe_enum]) = plan[1].timeframe_enum

\* "1W" was resolved to W1
C12_Witness ==
    /\ TimeframeResolved
    /\ call.timeframe = <<"1","W">>
    /\ plan[1].timeframe_enum = "W1"

----------------------------------------------------------------------------
(* The worked example of the stop and the targets (SpecPlan) *)

\* a SHORT signal at 1.61159 on the 3-minute timeframe for a forex symbol
\* whose pip is 0.0001
ShortForexExample ==
    /\ PlanReturned
    /\ upper(call.direction) = SHORT
    /\ call.entry_price = Price1
    /\ call.timeframe = "M3"
    /\ plan[1].market_type = FOREX
    /\ calculate_pip_size(call.symbol) = 1

\* C13: a SHORT forex signal at 1.61159 on the 3-minute timeframe, pip
\* 0.0001, has a stop of 3 pips at 1.61189, and TP1 > TP2 > TP3, all three
\* below the entry price.
C13_ShortExample ==
    ShortForexExample =>
        /\ plan[1].stop_pips = 3 * 10
        /\ plan[1].stop_loss = 161189 * 2
        /\ TP(plan[1], 1) < call.entry_price
        /\ TP(plan[1], 2) < TP(plan[1], 1)
        /\ TP(plan[1], 3) < TP(plan[1], 2)

\* the plan of EURCAD SHORT 1.61159 3M: targets at 1.61129, 1.61099, 1.61069
C13_Witness ==
    /\ ShortForexExample
    /\ call.symbol = Sym_EURCAD
    /\ plan[1].stop_loss = 161189 * 2
    /\ TP(plan[1], 1) = 161129 * 2
    /\ TP(plan[1], 2) = 161099 * 2
    /\ TP(plan[1], 3) = 161069 * 2

----------------------------------------------------------------------------
(* Claims about the de-duplication history and the trades of add_signal    *)
(* (Spec)                                                                  *)

\* C14: an add_signal call rejected as a duplicate sends no notification,
\* creates no trade, leaves the balance as it was and leaves the stored
\* timestamps as they were.
C14_DuplicateHasNoEffect ==
    [][(AddSignalStep /\ result'.outcome = "duplicate") =>
          /\ result'.sends = << >>
          /\ active_trades' = active_trades
          /\ account_balance' = account_balance
          /\ last_signal_time' = last_signal_time]_vars

\* a duplicate was rejected by a bot with a notifier, some time after the
\* acceptance, and the stored timestamp is still that of the acceptance
C14_Witness ==
    /\ result.op = "add_signal"
    /\ result.outcome = "duplicate"
    /\ telegram
    /\ Len(log) = 2
    /\ log[1].outcome = "accepted"
    /\ log[2].time > log[1].time
    /\ last_signal_time[signal_key(log[2].sig.symbol, log[2].sig.direction,
                                   log[2].sig.timeframe)] = log[1].time

\* C17: every accepted add_signal call adds one entry to active_trades.
C17_OwnTradePerSignal ==
    [][(AddSignalStep /\ result'.outcome = "accepted") =>
          Cardinality(DOMAIN active_trades')
              = Cardinality(DOMAIN active_trades) + 1]_vars

\* calls i and j have the same symbol, direction and timeframe strings
SameKey(i, j) ==
    /\ log[i].sig.symbol = log[j].sig.symbol
    /\ log[i].sig.direction = log[j].sig.direction
    /\ log[i].sig.timeframe = log[j].sig.timeframe

C19_FailedCallKeepsHistory ==
    [][(AddSignalStep /\ result'.outcome \in {"error", "raised"}) =>
          last_signal_time' = last_signal_time]_vars

----------------------------------------------------------------------------
(* SpecRetention: the bot of Spec over a day and more *)

\* the retention window of the history, 24 hours, in seconds
Retention == 24 * 3600

\* the start, the end of the first cooldown, the end of the retention
\* window and the second after it
RetentionInstants == {0, Cooldown, Retention, Retention + 1}

NextRetention ==
    \/ \E sig \in BotSignals, net \in [1..3 -> NetOutcomes] : AddSignal(sig, net)
    \/ \E t \in RetentionInstants : Tick(t)

SpecRetention == Init /\ [][NextRetention]_vars

\* C20: once an add_signal call has been processed, the history holds no
\* entry older than the retention window.
C20_HistoryPruned ==
    Len(log) > 0 =>
        \A k \in DOMAIN last_signal_time :
            LastCall.time - last_signal_time[k] <= Retention

----------------------------------------------------------------------------
(* update_trade, close_trade, update_market_prices. A pnl is in cents; the  *)
(* prices given to the bot lie whole pips from the entry price, which       *)
(* makes every pips and pnl below a whole number.                           *)

\* f"TP{tp['level']}"
TPName == <<"TP1", "TP2", "TP3">>

Abs(x) == IF x < 0 THEN -x ELSE x

\* entry to price, counted in the trade's favour: the test of lines 600 and
\* 672 is for "LONG", every other direction is taken as a SHORT
price_gain(trade, price) ==
    IF trade.direction = LONG THEN price - trade.entry_price
    ELSE trade.entry_price - price

\* (difference) / pip_size * 10000
trade_pips(trade, price) ==
    (price_gain(trade, price) * 500) \div calculate_pip_size(trade.symbol)

\* pips * position_size * pip_value
trade_pnl(trade, price) ==
    (price_gain(trade, price) * 5 * trade.position_size * trade.pip_value)
        \div calculate_pip_size(trade.symbol)

\* lines 621-622
stop_loss_hit(trade, current_price) ==
    \/ trade.direction = LONG  /\ current_price <= trade.stop_loss
    \/ trade.direction = SHORT /\ current_price >= trade.stop_loss

take_profit_hit(trade, tp, current_price) ==
    \/ trade.direction = LONG  /\ current_price >= tp.price
    \/ trade.direction = SHORT /\ current_price <= tp.price

RECURSIVE take_profit_reason_farthest_first(_, _, _)
\* the scan of the take profits from the last level down
take_profit_reason_farthest_first(trade, current_price, i) ==
    LET n == Len(trade.take_profits) + 1 - i
    IN  IF i > Len(trade.take_profits) THEN << >>
        ELSE IF take_profit_hit(trade, trade.take_profits[n], current_price)
        THEN <<TPName[trade.take_profits[n].level]>>
        ELSE take_profit_reason_farthest_first(trade, current_price, i + 1)

RECURSIVE take_profit_reason(_, _, _)
\* lines 629-635: the loop over trade["take_profits"] from index i on, left
\* at the first level the price has reached
take_profit_reason(trade, current_price, i) ==
    IF i > Len(trade.take_profits) THEN << >>
    ELSE IF take_profit_hit(trade, trade.take_profits[i], current_price)
    THEN <<TPName[trade.take_profits[i].level]>>
    ELSE take_profit_reason(trade, current_price, i + 1)

\* lines 617-635: << >> for None
exit_reason(trade, current_price) ==
    IF stop_loss_hit(trade, current_price) THEN <<"STOP_LOSS">>
    ELSE take_profit_reason(trade, current_price, 1)

\* del d[k]
Del(d, k) == [x \in DOMAIN d \ {k} |-> d[x]]

\* the bot as a call works on it: the trades, the balance, the trades
\* closed by the call and the Telegram calls made by it
BotState(trades, balance, closed, sends) ==
    [active_trades |-> trades, account_balance |-> balance,
     closed |-> closed, sends |-> sends]

\* close_trade with the pnl added to the balance twice
close_trade_twice(st, trade_id, exit_price, reason, net) ==
    IF trade_id \notin DOMAIN st.active_trades THEN st
    ELSE
    LET trade  == st.active_trades[trade_id]
        pnl    == trade_pnl(trade, exit_price)
        closed == [trade |-> trade, exit_price |-> exit_price,
                   exit_reason |-> reason, pnl |-> pnl,
                   pips |-> trade_pips(trade, exit_price)]
    IN  BotState(Del(st.active_trades, trade_id), st.account_balance + pnl + pnl,
                 Append(st.closed, closed), st.sends)

\* close_trade(trade_id, exit_price, exit_reason): lines 666-667 return for
\* an id that names no active trade
close_trade(st, trade_id, exit_price, reason, net) ==
    IF trade_id \notin DOMAIN st.active_trades THEN st
    ELSE
    LET trade  == st.active_trades[trade_id]
        pips   == trade_pips(trade, exit_price)
        pnl    == trade_pnl(trade, exit_price)
        left   == Del(st.active_trades, trade_id)
        closed == [trade |-> trade, exit_price |-> exit_price,
                   exit_reason |-> reason, pnl |-> pnl, pips |-> pips]
        told   == <<Sent("send_trade_closed", net, send_message(net))>>
        update == IF DOMAIN left = {}
                  THEN <<Sent("send_message", net, send_message(net))>>
                  ELSE << >>
    IN  BotState(left, st.account_balance + pnl, Append(st.closed, closed),
                 IF telegram THEN st.sends \o told \o update ELSE st.sends)

\* the part of update_trade after the exit tests, lines 640-653, for a bot
\* with a notifier: a move of more than a quarter of the risk amount is
\* reported, at most once in 300 seconds. risk_amount is in thousandths of a
\* cent. The trade gets its '_last_update'.
periodic_update(trade, pnl, current_time, net) ==
    LET known == IF "last_update" \in DOMAIN trade THEN trade.last_update ELSE << >>
        due   == known = << >> \/ current_time - known[1] > Cooldown
        ret   == send_message(net)
    IN  IF Abs(pnl) * 4 > trade.risk_amount \div 1000
        THEN [trade |-> ("last_update" :> IF due /\ ret = PyTrue
                                          THEN <<current_time>> ELSE known)
                            @@ trade,
              sends |-> IF due THEN <<Sent("send_trade_update", net, ret)>>
                        ELSE << >>]
        ELSE [trade |-> trade, sends |-> << >>]

\* update_trade(trade_id, current_price): the bot after the call and what
\* the call returns, << >> for None
update_trade(st, trade_id, current_price, net, current_time) ==
    IF trade_id \notin DOMAIN st.active_trades
    THEN [st |-> st, returned |-> << >>]
    ELSE
    LET trade0 == st.active_trades[trade_id]
        pips   == trade_pips(trade0, current_price)
        pnl    == trade_pnl(trade0, current_price)
        trade  == ("current_pips" :> pips) @@
                  [trade0 EXCEPT !.current_price = current_price,
                                 !.current_pnl = pnl,
                                 !.max_profit = IF pnl > @ THEN pnl ELSE @,
                                 !.max_loss = IF pnl < @ THEN pnl ELSE @]
        stored == [st EXCEPT !.active_trades = Put(@, trade_id, trade)]
        reason == exit_reason(trade, current_price)
        told   == periodic_update(trade, pnl, current_time, net)
    IN  IF reason # << >>
        THEN [st |-> close_trade(stored, trade_id, current_price, reason[1], net),
              returned |-> << >>]
        ELSE IF telegram
        THEN [st |-> [stored EXCEPT !.active_trades = Put(@, trade_id, told.trade),
                                    !.sends = @ \o told.sends],
              returned |-> <<[trade_id |-> trade_id, current_price |-> current_price,
                              current_pnl |-> pnl]>>]
        ELSE [st |-> stored,
              returned |-> <<[trade_id |-> trade_id, current_price |-> current_price,
                              current_pnl |-> pnl]>>]

\* the trade stored first among ids: a dict keeps the order of insertion,
\* which is the order of the seconds in the trade ids
FirstStored(ids) == CHOOSE id \in ids : \A other \in ids : id.time <= other.time

RECURSIVE update_each(_, _, _, _, _)
\* the loop of update_market_prices over the trades named in ids
update_each(st, ids, market_data, net, current_time) ==
    IF ids = {} THEN [st |-> st, returned |-> << >>]
    ELSE LET trade_id == FirstStored(ids)
             symbol   == st.active_trades[trade_id].symbol
             one      == IF symbol \in DOMAIN market_data
                         THEN update_trade(st, trade_id, market_data[symbol],
                                           net, current_time)
                         ELSE [st |-> st, returned |-> << >>]
             rest     == update_each(one.st, ids \ {trade_id}, market_data,
                                     net, current_time)
         IN  [st |-> rest.st, returned |-> one.returned \o rest.returned]

\* update_market_prices(market_data)
update_market_prices(st, market_data, net, current_time) ==
    update_each(st, DOMAIN st.active_trades, market_data, net, current_time)

----------------------------------------------------------------------------
(* SpecTrade: signals for EURCAD and price updates for the trades they open *)

\* the signals: the first signal of main(), its opposite, and the first
\* with its direction in lower case
TradeSignals ==
    { Signal(Sym_EURCAD, SHORT,    Price1, TRUE, tf_3M),
      Signal(Sym_EURCAD, LONG,     Price1, TRUE, tf_3M),
      Signal(Sym_EURCAD, short_lc, Price1, TRUE, tf_3M) }

\* the prices of the updates, in pips from 1.61159: the stop of a 3M forex
\* trade lies 3 pips from the entry, its targets 3, 6 and 9 pips
PipOffsets   == {-10, -3, -2, 3, 6}
UpdatePrices == {Price1 + k * 20 : k \in PipOffsets}

\* market_data: a price for EURCAD, or one for a symbol without a trade
MarketData ==
    {(Sym_EURCAD :> price) : price \in UpdatePrices} \cup {(Sym_BTCUSD :> Price2)}

\* the add_signal calls and the update calls of one run
MaxTradeSignals == 2
MaxUpdates == 2

\* the balances from which a further signal is taken: -2,000,000.00 to
\* 60,000.00, which keeps the amounts of its trade within 32 bits
BalanceFloor   == -(2000000 * 100)
BalanceCeiling == 60000 * 100

\* add_signal, while the balance is in that range
AddTradeSignal(sig, net) ==
    /\ BalanceFloor <= account_balance
    /\ account_balance <= BalanceCeiling
    /\ Len(log) < MaxTradeSignals
    /\ AddSignal(sig, net)

\* the bot at the start of a call
Bot == BotState(active_trades, account_balance, << >>, << >>)

\* one call of update_trade(trade_id, current_price)
UpdateTrade(trade_id, current_price, net) ==
    LET done == update_trade(Bot, trade_id, current_price, net, now)
    IN  /\ Len(log) < MaxTradeSignals + MaxUpdates
        /\ ~telegram => net = "ok"
        /\ active_trades' = done.st.active_trades
        /\ account_balance' = done.st.account_balance
        /\ result' = [op |-> "update_trade", trade_id |-> trade_id,
                      returned |-> done.returned,
                      closed |-> done.st.closed, sends |-> done.st.sends]
        /\ log' = Append(log, [op |-> "update_trade"])
        /\ UNCHANGED <<risk_percent, last_signal_time, telegram, now, call, plan,
                       threads, request, response, channel>>

\* one call of update_market_prices(market_data)
UpdateMarketPrices(market_data, net) ==
    LET done == update_market_prices(Bot, market_data, net, now)
    IN  /\ Len(log) < MaxTradeSignals + MaxUpdates
        /\ ~telegram => net = "ok"
        /\ active_trades' = done.st.active_trades
        /\ account_balance' = done.st.account_balance
        /\ result' = [op |-> "update_market_prices", returned |-> done.returned,
                      closed |-> done.st.closed, sends |-> done.st.sends]
        /\ log' = Append(log, [op |-> "update_market_prices"])
        /\ UNCHANGED <<risk_percent, last_signal_time, telegram, now, call, plan,
                       threads, request, response, channel>>

\* what the network does during an update: the message gets through or not
UpdateNets == {"ok", "exception"}

\* the prices and the reason of the direct calls of close_trade
ClosePrices == {Price1 - 2 * 20, Price1 + 3 * 20}
MANUAL == "MANUAL"

\* one call of close_trade(trade_id, exit_price, exit_reason)
CloseTrade(trade_id, exit_price, net) ==
    LET done == close_trade(Bot, trade_id, exit_price, MANUAL, net)
    IN  /\ Len(log) < MaxTradeSignals + MaxUpdates
        /\ ~telegram => net = "ok"
        /\ active_trades' = done.active_trades
        /\ account_balance' = done.account_balance
        /\ result' = [op |-> "close_trade", trade_id |-> trade_id,
                      returned |-> << >>,
                      closed |-> done.closed, sends |-> done.sends]
        /\ log' = Append(log, [op |-> "close_trade"])
        /\ UNCHANGED <<risk_percent, last_signal_time, telegram, now, call, plan,
                       threads, request, response, channel>>

\* a trade id that names no trade
NoSuchTrade == make_trade_id(Sym_BTCUSD, 0)

NextTrade ==
    \/ \E sig \in TradeSignals, net \in [1..3 -> NetOutcomes] : AddTradeSignal(sig, net)
    \/ \E trade_id \in DOMAIN active_trades \cup {NoSuchTrade},
          current_price \in UpdatePrices, net \in UpdateNets :
            UpdateTrade(trade_id, current_price, net)
    \/ \E market_data \in MarketData, net \in UpdateNets :
            UpdateMarketPrices(market_data, net)
    \/ \E trade_id \in DOMAIN active_trades \cup {NoSuchTrade},
          exit_price \in ClosePrices, net \in UpdateNets :
            CloseTrade(trade_id, exit_price, net)
    \/ \E t \in {i \in Instants : i % Cooldown = 0} : Tick(t)

SpecTrade == Init /\ [][NextTrade]_vars

----------------------------------------------------------------------------
(* Claims about the price updates (SpecTrade) *)

\* the price lies strictly between the trade's stop and its first target
InsideBounds(trade) ==
    LET stop == trade.stop_loss
        tp1  == trade.take_profits[1].price
    IN  \/ stop < trade.current_price /\ trade.current_price < tp1
        \/ tp1 < trade.current_price /\ trade.current_price < stop

\* C15: every trade in active_trades has its current price strictly between
\* its stop_loss and its TP1: an update whose price reaches or crosses either
\* of the two closes the trade and removes it.
C15_ActiveTradesInsideBounds ==
    \A trade_id \in DOMAIN active_trades : InsideBounds(active_trades[trade_id])

Updated == result.op \in {"update_trade", "update_market_prices"}

\* C16: every trade closed by an update is closed with the reason STOP_LOSS
\* or TP1: STOP_LOSS when the price is at or beyond the stop, TP1 otherwise,
\* also when the price is at or beyond TP2 or TP3.
C16_ClosedByStopOrFirstTarget ==
    Updated =>
        \A k \in 1..Len(result.closed) :
            LET c == result.closed[k] IN
            /\ c.exit_reason \in {"STOP_LOSS", "TP1"}
            /\ c.exit_reason = "STOP_LOSS" <=>
                  \/ c.trade.direction = LONG  /\ c.exit_price <= c.trade.stop_loss
                  \/ c.trade.direction = SHORT /\ c.exit_price >= c.trade.stop_loss

\* a SHORT closed with TP1 at a price below its TP3, and a close at the stop
C16_Witness ==
    /\ Updated
    /\ Len(result.closed) = 1
    /\ result.closed[1].trade.direction = SHORT
    /\ result.closed[1].exit_price < result.closed[1].trade.take_profits[3].price
    /\ result.closed[1].exit_reason = "TP1"
    /\ account_balance > DefaultBalance

----------------------------------------------------------------------------
(* Claims about the balance (SpecTrade) *)

\* a call of the bot was made
CallStep == Len(log') = Len(log) + 1

TradeOps == {"update_trade", "update_market_prices", "close_trade"}

RECURSIVE SumPnl(_)
SumPnl(closed) ==
    IF closed = << >> THEN 0 ELSE closed[1].pnl + SumPnl(Tail(closed))

\* C21: the balance changes only when trades are closed, by the sum of the
\* pnl of the trades the call closes; a closed trade was active before the
\* call and is not after it, so no pnl is applied twice; update_trade and
\* close_trade on an id that is not active change nothing.
C21_BalanceFollowsClosedPnl ==
    [][/\ (CallStep /\ result'.op \in TradeOps) =>
            /\ account_balance' = account_balance + SumPnl(result'.closed)
            /\ \A k \in 1..Len(result'.closed) :
                  LET c == result'.closed[k] IN
                  /\ c.trade.trade_id \in DOMAIN active_trades
                  /\ c.trade.trade_id \notin DOMAIN active_trades'
                  /\ c.pnl = trade_pnl(active_trades[c.trade.trade_id], c.exit_price)
                  /\ \A j \in 1..Len(result'.closed) :
                        j # k => result'.closed[j].trade.trade_id # c.trade.trade_id
            /\ \A trade_id \in DOMAIN active_trades \ DOMAIN active_trades' :
                  \E k \in 1..Len(result'.closed) :
                      result'.closed[k].trade.trade_id = trade_id
            /\ (result'.op \in {"update_trade", "close_trade"}
                /\ result'.trade_id \notin DOMAIN active_trades) =>
                    /\ active_trades' = active_trades
                    /\ account_balance' = account_balance
       /\ ~(CallStep /\ result'.op \in TradeOps) =>
            account_balance' = account_balance]_vars

\* one update_market_prices has closed two trades and the balance has moved
\* by the sum of the two pnl
C21_Witness ==
    /\ result.op = "update_market_prices"
    /\ Len(result.closed) = 2
    /\ result.closed[1].pnl # 0 /\ result.closed[2].pnl # 0
    /\ account_balance = DefaultBalance + result.closed[1].pnl + result.closed[2].pnl
    /\ active_trades = << >>

\* the closed trades of the last call that left at the stop price with a
\* position size above the 0.01 floor
ClosedAtStop ==
    IF result.op \in TradeOps
    THEN {k \in 1..Len(result.closed) :
            /\ result.closed[k].exit_price = result.closed[k].trade.stop_loss
            /\ result.closed[k].trade.position_size > 1}
    ELSE {}

\* C22: a trade closed exactly at its stop_loss costs its risk_amount, up to
\* half a hundredth of a lot over the stop distance (the rounding of the
\* position size) and one cent; risk_amount is in thousandths of a cent.
C22_StopLossCostsRiskAmount ==
    \A k \in ClosedAtStop :
        LET c == result.closed[k] IN
        Abs((-c.pnl) - (c.trade.risk_amount \div 1000))
            <= (c.trade.stop_pips * c.trade.pip_value) \div 2000 + 1

----------------------------------------------------------------------------
(* Claims about the distances of a plan (SpecPlan) *)

\* C23: in every trade plan stop_pips is the base stop of the timeframe
\* times the multiplier of the market type, the stop lies stop_pips pips
\* from the entry, and each of the three targets lies at the stop distance
\* times its risk/reward ratio from the entry (ratios in halves).
C23_DistancesFromTables ==
    PlanReturned =>
        LET p == plan[1]
            stop_distance == Abs(p.entry_price - p.stop_loss)
        IN  /\ p.stop_pips = timeframe_stops[call.timeframe]
                               * market_multipliers[p.market_type]
            /\ stop_distance = p.stop_pips * calculate_pip_size(call.symbol) * 2
            /\ Len(p.take_profits) = 3
            /\ \A i \in 1..3 :
                  2 * Abs(TP(p, i) - p.entry_price)
                      = stop_distance * timeframe_rr_ratios[call.timeframe][i]

\* a four-hour plan for a crypto symbol: stop 62.5 pips of 1.0 away, third
\* target six times as far
C23_Witness ==
    /\ PlanReturned
    /\ call.symbol = Sym_BTCUSD
    /\ call.timeframe = "H4"
    /\ plan[1].stop_pips = 625
    /\ Abs(plan[1].entry_price - plan[1].stop_loss) = 625 * 10000 * 2
    /\ Abs(TP(plan[1], 3) - plan[1].entry_price) = 6 * 625 * 10000 * 2

\* C24: the position size returned is at least 0.01 and is 0.01 when
\* stop_pips is not positive; for a positive stop_pips a size above 0.01 is
\* within half a hundredth of risk_amount / (stop_pips * pip_value), and
\* the size is 0.01 only when that quotient is at most 0.015.
C24_SizeRoundedAndFloored ==
    SizeReturned =>
        LET position_size == plan[1].position_size
            n == call.account_balance * call.risk_percent
            d == call.stop_pips * call.pip_value
        IN  /\ position_size >= 1
            /\ call.stop_pips <= 0 => position_size = 1
            /\ (call.stop_pips > 0 /\ position_size > 1) =>
                  2 * Abs(position_size * d - n) <= d
            /\ (call.stop_pips > 0 /\ position_size = 1) => 2 * (n - d) <= d

\* a size of 0.01 for 10000.00 at 1 percent over a stop of -3 pips
C24_Witness ==
    /\ SizeReturned
    /\ call.stop_pips = -30
    /\ call.account_balance = DefaultBalance
    /\ plan[1].position_size = 1

\* the index instruments of initialize_market_profiles
IndexSymbols ==
    {<<"U","S","3","0">>, <<"S","P","X","5","0","0">>, <<"N","A","S","1","0","0">>}

\* C25: for an index instrument the stop lies stop_pips whole price units
\* (points of 1.0) from the entry; stop_pips is in tenths.
C25_IndexDistanceInPoints ==
    (PlanReturned /\ replace_slash(upper(call.symbol)) \in IndexSymbols) =>
        10 * Abs(plan[1].entry_price - plan[1].stop_loss)
            = plan[1].stop_pips * PriceUnit

----------------------------------------------------------------------------
(* SpecNormalized: the bot receiving signals that differ in the spelling of *)
(* the timeframe or in the letter case of the symbol                        *)

tf_1H  == <<"1","H">>
tf_foo == <<"f","o","o">>
tf_bar == <<"b","a","r">>
Sym_btcusd_lc == <<"b","t","c","u","s","d">>

\* "1h" and "1H" resolve to TimeFrame.H1, "foo" and "bar" to the default
\* TimeFrame.M3; 'btcusd' and 'BTCUSD' have the same market profile
NormalizedSignals ==
    { Signal(Sym_BTCUSD,    LONG,  Price2, TRUE, tf_1h),
      Signal(Sym_BTCUSD,    LONG,  Price2, TRUE, tf_1H),
      Signal(Sym_btcusd_lc, LONG,  Price2, TRUE, tf_1H),
      Signal(Sym_EURCAD,    SHORT, Price1, TRUE, tf_foo),
      Signal(Sym_EURCAD,    SHORT, Price1, TRUE, tf_bar) }

NextNormalized ==
    \/ \E sig \in NormalizedSignals, net \in [1..3 -> NetOutcomes] :
            AddSignal(sig, net)
    \/ \E t \in Instants : Tick(t)

SpecNormalized == Init /\ [][NextNormalized]_vars

\* calls i and j name the same instrument (up to letter case and "/"), the
\* same direction and timeframes that resolve to the same TimeFrame
SameNormalized(i, j) ==
    /\ replace_slash(upper(log[i].sig.symbol))
          = replace_slash(upper(log[j].sig.symbol))
    /\ log[i].sig.direction = log[j].sig.direction
    /\ tf_map_get(log[i].sig.timeframe) = tf_map_get(log[j].sig.timeframe)

\* C26: a call that follows an accepted call for the same normalized signal
\* by less than the cooldown is rejected as a duplicate.
C26_NormalizedDuplicateRejected ==
    \A i \in 1..Len(log), j \in 1..Len(log) :
        (/\ i < j
         /\ SameNormalized(i, j)
         /\ log[i].outcome = "accepted"
         /\ log[j].time - log[i].time < Cooldown)
            => log[j].outcome = "duplicate"

----------------------------------------------------------------------------
(* Claims about the risk tables (SpecPlan) *)

\* the members of TimeFrame from the shortest to the longest
TimeFrameOrder == <<"M1", "M3", "M5", "M15", "M30", "H1", "H4", "D1", "W1">>

StrictlyAscending(ratios) ==
    \A k \in 1..(Len(ratios) - 1) : ratios[k] < ratios[k + 1]

\* C27: over the timeframes from 1M to 1W the base stop and each of the
\* three risk/reward ratios of a longer timeframe are never smaller than
\* those of a shorter one, the three ratios of every timeframe are strictly
\* ascending, and so are the ratios of the targets of every plan.
C27_WidenWithTimeframe ==
    /\ \A i \in 1..Len(TimeFrameOrder), j \in 1..Len(TimeFrameOrder) :
          i < j =>
              LET shorter == TimeFrameOrder[i]
                  longer  == TimeFrameOrder[j]
              IN  /\ timeframe_stops[shorter] <= timeframe_stops[longer]
                  /\ \A k \in 1..3 :
                        timeframe_rr_ratios[shorter][k]
                            <= timeframe_rr_ratios[longer][k]
    /\ \A tf \in TimeFrames :
          /\ Len(timeframe_rr_ratios[tf]) = 3
          /\ StrictlyAscending(timeframe_rr_ratios[tf])
    /\ PlanReturned =>
          /\ StrictlyAscending([k \in 1..3 |-> plan[1].take_profits[k].rr_ratio])
          /\ \A i \in 1..Len(TimeFrameOrder) :
                (TimeFrameOrder[i] # call.timeframe
                 /\ \A j \in 1..Len(TimeFrameOrder) :
                        TimeFrameOrder[j] = call.timeframe => i < j)
                    => timeframe_stops[TimeFrameOrder[i]]
                          * market_multipliers[plan[1].market_type]
                              <= plan[1].stop_pips

\* a one-hour forex plan: stop of 15 pips, above the 12 of thirty minutes,
\* ratios 2.5, 3.5 and 5.0
C27_Witness ==
    /\ PlanReturned
    /\ call.timeframe = "H1"
    /\ plan[1].market_type = FOREX
    /\ plan[1].stop_pips = 150
    /\ plan[1].take_profits[1].rr_ratio = 5
    /\ plan[1].take_profits[3].rr_ratio = 10

====
